---- MODULE Spec2Model ----
(***************************************************************************)
(* The single-instance lock of the bot (src/instance_lock.py, class        *)
(* InstanceLock): processes racing for one lock file.  Every system call   *)
(* of acquire, check_and_remove_stale_lock and release is one step, so     *)
(* that other processes interleave between the exclusive create, the pid   *)
(* write, the record read, the liveness query and the delete.              *)
(***************************************************************************)
EXTENDS Integers, Sequences, FiniteSets, TLC

\* ------------------------------------------------------------------ bounds
\* How many of its own completed calls the history of a process keeps.
TrailLen == 3

\* ------------------------------------------------------- program constants
MaxAttempts == 3
STILL_ACTIVE == 259

\* --------------------------------------------------------------- processes
Procs == {1, 2}
\* os.getpid() of process p: two-digit pids, so that the decimal text of a
\* pid is not a single character.
getpid(p) == 40 + p

\* ------------------------------------------------------------ record text
\* File content is a sequence of one-character strings.
Digits == <<"0", "1", "2", "3", "4", "5", "6", "7", "8", "9">>
Whitespace == {" ", "\n", "\t"}
IsDigit(c) == \E i \in 1 .. 10 : Digits[i] = c
DigitVal(c) == (CHOOSE i \in 1 .. 10 : Digits[i] = c) - 1

RECURSIVE StrNat(_)
StrNat(n) == IF n < 10 THEN <<Digits[n + 1]>>
             ELSE StrNat(n \div 10) \o <<Digits[(n % 10) + 1]>>
\* str(pid)
str(n) == IF n < 0 THEN <<"-">> \o StrNat(0 - n) ELSE StrNat(n)

RECURSIVE LStrip(_)
LStrip(s) == IF s # <<>> /\ Head(s) \in Whitespace THEN LStrip(Tail(s)) ELSE s
RECURSIVE RStrip(_)
RStrip(s) == IF s # <<>> /\ s[Len(s)] \in Whitespace
             THEN RStrip(SubSeq(s, 1, Len(s) - 1)) ELSE s
\* str.strip()
strip(s) == RStrip(LStrip(s))

RECURSIVE NatOf(_)
NatOf(s) == IF s = <<>> THEN 0
            ELSE 10 * NatOf(SubSeq(s, 1, Len(s) - 1)) + DigitVal(s[Len(s)])
AllDigits(s) == s # <<>> /\ \A i \in 1 .. Len(s) : IsDigit(s[i])
Unsigned(s) == IF s # <<>> /\ Head(s) \in {"+", "-"} THEN Tail(s) ELSE s
\* int(text) raises ValueError exactly when IsInt(text) is false.
IsInt(s) == AllDigits(Unsigned(s))
\* The largest value of a C int, which is what os.kill and OpenProcess take
\* the pid as; a Python int beyond it makes them raise OverflowError.  It
\* stands here for every integer from it upwards: a text of more than nine
\* digits is read as INT_MAX.
INT_MAX == 2147483647
int(s) == IF Len(Unsigned(s)) > 9 THEN INT_MAX
          ELSE IF s # <<>> /\ Head(s) = "-" THEN 0 - NatOf(Tail(s))
          ELSE NatOf(Unsigned(s))

\* ------------------------------------------------------------------ state
VARIABLES
    os_name,     \* os.name of the host: "posix" or "nt"
    disk,        \* "sound", "failing" (one call will fail) or "failed" (one has)
    alive,       \* alive[p]: process p exists in the process registry
    path,        \* the directory entry lock_filename: 0 (absent) or an inode
    content,     \* content[i]: the bytes of inode i, as flushed
    lock_file,   \* self.lock_file of p: 0 (None), the inode its handle is on,
                 \* or ClosedFile
    rd,          \* the inode p's read handle ("with open(..., 'r') as f") is on
    pc,          \* where p is in acquire / check_and_remove_stale_lock / release
    attempt,     \* the loop variable of acquire
    locked_pid_str, \* the stripped text p read from the record
    ret,         \* what p's last acquire returned: "none", "true", "false"
    holding,     \* p is between an acquire that returned True and its release
    verdict,     \* what the last check of p's current call found
    mutated,     \* p's current call created, wrote or deleted a file
    deletions,   \* how many files p's current call has deleted
    lf0,         \* self.lock_file when p's current call began
    rec0,        \* the record at the path when the latest call began
    actor,       \* the process that took the latest step
    dirty,       \* another process acted during the actor's current call
    trail,       \* the actor's completed calls since another process last acted
    entry,       \* who calls the lock: "library" (any caller), "race" (one
                 \* acquire per process, at once) or a bot script
    stage,       \* where the bot script of p is
    exit_status, \* the exit status of the script of p, -1 while it runs
    handlers,    \* the script of p has registered its message handlers
    acquires,    \* how often the script of p has called acquire
    releases,    \* how often the script of p has called release
    ended,       \* how run_bot of p ended: "return", "exception", "sys.exit"
    probe,       \* what the liveness check did, if the latest step was one
    seen_live,   \* the file held a live pid before some step of p's current call
    crashed,     \* what p had done when it crashed: "created", "holding" or ""
    race         \* in a race: what the acquire of p returned, or "denied"

vars == <<os_name, disk, alive, path, content, lock_file, rd, pc, attempt,
          locked_pid_str, ret, holding, verdict, mutated, deletions, lf0,
          rec0, actor, dirty, trail, entry, stage, exit_status, handlers,
          acquires, releases, ended, probe, seen_live,
          crashed, race>>

\* One inode for the path and two handles per process can be in use at once.
Inodes == 1 .. (2 * Cardinality(Procs) + 1)
\* self.lock_file holding a file object whose handle is closed: what a
\* close() that raised leaves, line 172 being skipped.
ClosedFile == 0 - 1
\* What a reader of the path finds when no file is there.
NoFile == <<"ENOENT">>
\* rec0 when no call is being followed.
Unknown == <<"?">>

Referenced(i, pth, lf, r) ==
    pth = i \/ \E p \in Procs : lf[p] = i \/ r[p] = i
\* An inode nothing refers to is gone: its bytes are dropped.
Reclaim(c, pth, lf, r) ==
    [i \in Inodes |-> IF Referenced(i, pth, lf, r) THEN c[i] ELSE <<>>]
FreshInode == CHOOSE i \in Inodes :
                 /\ ~Referenced(i, path, lock_file, rd)
                 /\ \A j \in Inodes : ~Referenced(j, path, lock_file, rd) => i <= j
\* The text at the path, as a reader opening it now would get it.
FileText == IF path = 0 THEN NoFile ELSE content[path]
HasOpenHandle(i) == \E p \in Procs : lock_file[p] = i \/ rd[p] = i

\* ------------------------------------------------- the process registry
PidAlive(n) == \E p \in Procs : getpid(p) = n /\ alive[p]

\* What os.kill(pid, 0) can answer.  For a pid > 0: no error, or OSError
\* with errno EPERM or ESRCH; OverflowError beyond a C int.  Pid 0 stands for
\* the caller's own process group, which exists; a negative pid for the
\* process group of that number, and the model has none.
KillOutcomes(n) == IF n >= INT_MAX THEN {"OverflowError"}
                   ELSE IF n = 0 THEN {"ok"}
                   ELSE IF PidAlive(n) THEN {"ok", "EPERM"} ELSE {"ESRCH"}
\* The class of the exception os.kill raises with that answer.
KillException(outcome) ==
    IF outcome = "ok" THEN ""
    ELSE IF outcome \in {"EPERM", "ESRCH"} THEN "OSError"
    ELSE outcome

\* The guard with the comparison off by one: pid 0 is probed.
invalid_pid_negative(pid) == pid < 0
\* "if pid <= 0", lines 25 and 55: both variants return False before their
\* try block.
InvalidPid(pid) == pid <= 0

\* A probe that never finds the process: every record looks stale.
posix_never_running(pid, outcome) == FALSE
\* EPERM taken for "no such process".
posix_eperm_not_running(pid, outcome) == ~InvalidPid(pid) /\ outcome = "ok"

is_process_running_posix(pid, outcome) ==
    IF InvalidPid(pid) THEN FALSE
    ELSE CASE outcome = "ok" -> TRUE
           [] outcome = "ESRCH" -> FALSE
           [] outcome = "EPERM" -> TRUE
           [] OTHER -> FALSE

\* What OpenProcess and GetExitCodeProcess can answer for a pid > 0: no handle
\* (OpenProcess returned 0), or a handle and the exit code queried from it.
\* The processes of the model run under one account, so the registry is
\* truthful about them: a live one is opened and is STILL_ACTIVE.
\* A pid beyond a C int makes the call itself raise (ctypes.ArgumentError).
NoHandle == [raised |-> FALSE, handle |-> FALSE, query_ok |-> FALSE, exit_code |-> 0]
Queried(code) == [raised |-> FALSE, handle |-> TRUE, query_ok |-> TRUE, exit_code |-> code]
CallRaised == [raised |-> TRUE, handle |-> FALSE, query_ok |-> FALSE, exit_code |-> 0]
\* A handle on which GetExitCodeProcess fails (returns 0).
QueryFailed == [raised |-> FALSE, handle |-> TRUE, query_ok |-> FALSE, exit_code |-> 0]
QueryOutcomes(n) ==
    IF n >= INT_MAX THEN {CallRaised}
    ELSE IF PidAlive(n) THEN {Queried(STILL_ACTIVE)}
    ELSE IF n <= 0 THEN {NoHandle}
    ELSE {NoHandle, Queried(0), QueryFailed}

is_process_running_windows(pid, o) ==
    IF InvalidPid(pid) THEN FALSE
    ELSE IF o.raised THEN FALSE
    ELSE IF ~o.handle THEN FALSE
    ELSE IF o.query_ok THEN o.exit_code = STILL_ACTIVE
    ELSE FALSE

\* ------------------------------------------------------------ os.remove
\* Windows refuses to delete a file some handle is open on; POSIX unlinks it.
RemoveOutcome == IF path = 0 THEN "FileNotFoundError"
                 ELSE IF os_name = "nt" /\ HasOpenHandle(path) THEN "PermissionError"
                 ELSE "ok"

\* ------------------------------------------------------- system calls
\* What each call on the lock file can answer: "ok" or the exception it
\* raises.  A file system that can fail (disk full, I/O error) makes one call
\* of the run raise OSError, whichever call that is.
Fault == IF disk = "failing" THEN {"OSError"} ELSE {}
\* The failure is spent once a call has raised it.
DiskAfter(o) == IF o = "OSError" THEN "failed" ELSE disk
OpenXOutcomes == (IF path = 0 THEN {"ok"} ELSE {"FileExistsError"}) \cup Fault
WriteOutcomes == {"ok"} \cup Fault
OpenROutcomes == (IF path = 0 THEN {"FileNotFoundError"} ELSE {"ok"}) \cup Fault
ReadOutcomes == {"ok"} \cup Fault
RemoveOutcomes == {RemoveOutcome} \cup Fault
CloseOutcomes(p) == {"ok"} \cup (IF lock_file[p] \in Inodes THEN Fault ELSE {})

\* ----------------------------------------------------------- exceptions
OSErrors == {"FileExistsError", "FileNotFoundError", "PermissionError", "OSError"}
\* isinstance(exc, cls) for the classes the except clauses name.
IsInstance(exc, cls) ==
    \/ cls = "Exception"
    \/ exc = cls
    \/ (cls = "OSError" /\ exc \in OSErrors)
\* The first except clause of a try statement that catches exc; "" when none
\* does and the exception leaves the statement.
RECURSIVE Handler(_, _)
Handler(exc, excepts) ==
    IF excepts = <<>> THEN ""
    ELSE IF IsInstance(exc, Head(excepts)) THEN Head(excepts)
    ELSE Handler(exc, Tail(excepts))

\* The except clauses of acquire, lines 145 and 157.
AcquireExcepts == <<"FileExistsError", "Exception">>
\* check_and_remove_stale_lock without its last clause.
check_excepts_narrow == <<"FileNotFoundError", "ValueError">>
\* The except clauses of check_and_remove_stale_lock, lines 117, 120 and 128.
CheckExcepts == <<"FileNotFoundError", "ValueError", "Exception">>
\* The clause around the removal of a corrupt record, line 125.
CorruptRemoveExcepts == <<"Exception">>
\* The except clauses of the inner try of release, lines 196, 200 and 202.
ReleaseInnerExcepts == <<"ValueError", "FileNotFoundError", "Exception">>
\* release without its outer clause.
release_outer_none == <<>>
\* The except clause of the outer try of release, line 206.
ReleaseOuterExcepts == <<"Exception">>

\* ------------------------------------------------- the liveness check
\* The except clauses of is_process_running_posix, lines 60 and 72.
PosixExcepts == <<"OSError", "Exception">>
\* is_process_running_posix lets the exception of os.kill out.
posix_raises(pid, outcome) ==
    /\ ~InvalidPid(pid)
    /\ outcome # "ok"
    /\ Handler(KillException(outcome), PosixExcepts) = ""

\* The calls is_process_running_posix makes to the operating system, lines
\* 55-59.
posix_calls(pid) == IF InvalidPid(pid) THEN <<>> ELSE <<"os.kill">>

\* The failed query returning without line 47.
windows_calls_leak(pid, o) ==
    IF InvalidPid(pid) THEN <<>>
    ELSE IF o.raised THEN <<"OpenProcess">>
    ELSE IF ~o.handle THEN <<"OpenProcess", "GetLastError">>
    ELSE IF o.query_ok THEN <<"OpenProcess", "GetExitCodeProcess", "CloseHandle">>
    ELSE <<"OpenProcess", "GetExitCodeProcess", "GetLastError">>
\* The calls is_process_running_windows makes to kernel32, lines 25-48.
windows_calls(pid, o) ==
    IF InvalidPid(pid) THEN <<>>
    ELSE IF o.raised THEN <<"OpenProcess">>
    ELSE IF ~o.handle THEN <<"OpenProcess", "GetLastError">>
    ELSE IF o.query_ok THEN <<"OpenProcess", "GetExitCodeProcess", "CloseHandle">>
    ELSE <<"OpenProcess", "GetExitCodeProcess", "GetLastError", "CloseHandle">>

\* No liveness check was made in the latest step.
NoProbe == [done |-> FALSE, pid |-> 0, kill |-> "", query |-> NoHandle,
            running |-> FALSE, raised |-> FALSE, calls |-> <<>>]
\* The ways is_process_running(pid) can run on this host: what the operating
\* system answered, what the check returned or that it raised, and the calls
\* it made.
is_process_running(pid) ==
    IF os_name = "nt"
    THEN {[done |-> TRUE, pid |-> pid, kill |-> "", query |-> o,
           running |-> is_process_running_windows(pid, o), raised |-> FALSE,
           calls |-> windows_calls(pid, o)] : o \in QueryOutcomes(pid)}
    ELSE IF os_name = "posix"
    THEN {[done |-> TRUE, pid |-> pid, kill |-> IF InvalidPid(pid) THEN "" ELSE o,
           query |-> NoHandle,
           running |-> ~posix_raises(pid, o) /\ is_process_running_posix(pid, o),
           raised |-> posix_raises(pid, o),
           calls |-> posix_calls(pid)] : o \in KillOutcomes(pid)}
    ELSE {[NoProbe EXCEPT !.done = TRUE, !.pid = pid]}

\* -------------------------------------------------------------- Init
\* The records a starting process can find at the path: none, an empty or
\* whitespace-only file, text that is no integer, the pid of a process that
\* is gone, a non-positive integer, (pid reuse, or a record written by
\* hand) the pid of a process that is alive, with and without a newline, and
\* a ten-digit number, which no process table holds.
InitRecords ==
    { NoFile, <<>>, <<" ", "\n">>, <<"a", "b", "c">>, str(99999999),
      <<"0">>, <<"-", "5">>, str(getpid(1)), str(getpid(2)) \o <<"\n">>,
      str(99999) \o str(99999) }

\* The processes of a run: all of them race on a sound file system; the runs
\* in which a call on the file fails are those of one process alone.
Started(d) == IF d = "sound" THEN Procs ELSE {1}

\* The lock as every caller sees it: the state before the first call.
LockInit ==
    /\ os_name \in {"posix", "nt"}
    /\ disk \in {"sound", "failing"}
    /\ alive = [p \in Procs |-> p \in Started(disk)]
    /\ \E r \in InitRecords :
          /\ path = IF r = NoFile THEN 0 ELSE 1
          /\ content = [i \in Inodes |-> IF i = 1 /\ r # NoFile THEN r ELSE <<>>]
    /\ rec0 = Unknown
    /\ lock_file = [p \in Procs |-> 0]
    /\ rd = [p \in Procs |-> 0]
    /\ pc = [p \in Procs |-> IF p \in Started(disk) THEN "idle" ELSE "dead"]
    /\ attempt = [p \in Procs |-> 0]
    /\ locked_pid_str = [p \in Procs |-> <<>>]
    /\ ret = [p \in Procs |-> "none"]
    /\ holding = [p \in Procs |-> FALSE]
    /\ verdict = [p \in Procs |-> "none"]
    /\ mutated = [p \in Procs |-> FALSE]
    /\ deletions = [p \in Procs |-> 0]
    /\ lf0 = [p \in Procs |-> 0]
    /\ actor = 0
    /\ dirty = FALSE
    /\ trail = <<>>
    /\ probe = NoProbe
    /\ seen_live = [p \in Procs |-> FALSE]
    /\ crashed = [p \in Procs |-> ""]
    /\ race = [p \in Procs |-> "none"]

\* The script that has not started.
ScriptInit ==
    /\ exit_status = [p \in Procs |-> 0 - 1]
    /\ handlers = [p \in Procs |-> FALSE]
    /\ acquires = [p \in Procs |-> 0]
    /\ releases = [p \in Procs |-> 0]
    /\ ended = [p \in Procs |-> "none"]

\* Processes that call acquire and release in any order.
Init ==
    /\ LockInit
    /\ entry = "library"
    /\ stage = [p \in Procs |-> "library"]
    /\ ScriptInit

\* ------------------------------------------------------- book-keeping
\* The history variables (ret, verdict, mutated, deletions, lf0, rec0, trail)
\* describe the call a process is in or has just returned from; they are
\* dropped as soon as another process takes a step after the return.
Resting(q) == pc[q] \in {"idle", "dead", "acquire_raised", "release_raised"}
\* No other process is inside a call.
Quiescent(p) == \A q \in Procs \ {p} : Resting(q)
LastN(s, n) == IF Len(s) <= n THEN s ELSE SubSeq(s, Len(s) - n + 1, Len(s))
Upd(f, p, x, dflt) ==
    [q \in Procs |-> IF q = p THEN x ELSE IF Resting(q) THEN dflt ELSE f[q]]

\* Process p takes a step; outcome is "" unless the step ends p's call with
\* "A+" (acquire returned True), "A-" (acquire returned False), "R" (release
\* returned) or "X" (the call raised).  trail lists the calls p ran from
\* start to end with every other process resting throughout.
Book(p, starting, outcome) ==
    LET t == IF actor = p THEN trail ELSE <<>>
        d == IF starting THEN ~Quiescent(p)
             ELSE IF actor = p THEN dirty ELSE TRUE
    IN  /\ actor' = p
        /\ rec0' = IF d THEN Unknown ELSE IF starting THEN FileText ELSE rec0
        /\ IF outcome = ""
           THEN trail' = (IF d THEN <<>> ELSE t) /\ dirty' = d
           ELSE /\ dirty' = FALSE
                /\ trail' = IF d THEN <<>> ELSE LastN(Append(t, outcome), TrailLen)

\* Where the script that called acquire or release goes on when the call
\* ends (src/BOT2_PythonAnywhere.py, lines 368-385): into run_bot after
\* acquire returned True, to sys.exit(1) after it returned False, to the end
\* of the script after release; an exception out of the call ends the script.
AfterCall(at, outcome) ==
    IF outcome = "" THEN at
    ELSE IF outcome = "X" THEN "traceback"
    ELSE IF at = "acquire" THEN (IF outcome = "A+" THEN "run_bot" ELSE "refused")
    ELSE IF at = "release" THEN "finished"
    ELSE at

\* Where a step leaves p: the next location, the loop variable, what acquire
\* returned if it did, and the call's outcome if it ended.
Continue(p, loc) == [pc |-> loc, attempt |-> attempt[p], ret |-> "none", outcome |-> ""]
\* The call ends with an exception no except clause caught.
Raised(p, loc) == [pc |-> loc, attempt |-> attempt[p], ret |-> "none", outcome |-> "X"]
\* The record at the path holds the pid of a live process now.
LiveNow == path # 0 /\ IsInt(strip(content[path])) /\ PidAlive(int(strip(content[path])))
\* seen_live after a step of p, which looked at the file as it was before;
\* it is followed in the races only.
Seen(p, starting) ==
    IF entry # "race" THEN seen_live
    ELSE LET live == LiveNow
         IN  [q \in Procs |->
                 IF q = p THEN (~starting /\ seen_live[p]) \/ live
                 ELSE IF Resting(q) THEN FALSE
                 ELSE seen_live[q] \/ live]
\* race after a step of p that leaves it as k says: what its acquire
\* returned, or "denied" once an os.remove of the call was refused
\* (PermissionError).
Raced(p, k) ==
    IF entry # "race" THEN race
    ELSE [race EXCEPT ![p] =
            IF race[p] = "denied" THEN "denied"
            ELSE IF /\ pc[p] \in {"check_remove_empty", "check_remove_corrupt",
                                  "check_remove_stale"}
                    /\ RemoveOutcome = "PermissionError" THEN "denied"
            ELSE IF k.outcome \in {"A+", "A-"} THEN k.ret
            ELSE race[p]]

StepP(p, starting, k, txt, v, m, d, pr) ==
    /\ probe' = pr
    /\ seen_live' = Seen(p, starting)
    /\ race' = Raced(p, k)
    /\ pc' = [pc EXCEPT ![p] = k.pc]
    /\ attempt' = Upd(attempt, p, k.attempt, 0)
    /\ ret' = Upd(ret, p, k.ret, "none")
    /\ locked_pid_str' = Upd(locked_pid_str, p, txt, <<>>)
    /\ verdict' = Upd(verdict, p, v, "none")
    /\ mutated' = Upd(mutated, p, m, FALSE)
    /\ deletions' = Upd(deletions, p, (IF starting THEN 0 ELSE deletions[p]) + d, 0)
    /\ lf0' = Upd(lf0, p, IF starting THEN lock_file[p] ELSE lf0[p], 0)
    /\ stage' = [stage EXCEPT ![p] = AfterCall(stage[p], k.outcome)]
    /\ Book(p, starting, k.outcome)
    /\ UNCHANGED <<entry, exit_status, handlers, acquires, releases, ended, crashed>>
StepD(p, starting, k, txt, v, m, d) == StepP(p, starting, k, txt, v, m, d, NoProbe)
Step(p, starting, k, txt, v, m) == StepD(p, starting, k, txt, v, m, 0)

\* -------------------------------------------------------------- acquire
\* acquire returns True, line 144.
ReturnTrue(p) ==
    [pc |-> "idle", attempt |-> attempt[p], ret |-> "true", outcome |-> "A+"]
\* acquire returns False: from the check (lines 153-156) or from an
\* unexpected error (lines 157-160).
ReturnFalse(p) ==
    [pc |-> "idle", attempt |-> attempt[p], ret |-> "false", outcome |-> "A-"]

\* The retry left out: acquire gives up once the stale record is removed.
retry_gives_up(p) == ReturnFalse(p)
\* The loop without its bound: the next attempt, whatever their number.
retry_unbounded(p) ==
    [pc |-> "acquire", attempt |-> attempt[p], ret |-> "none", outcome |-> ""]

\* check_and_remove_stale_lock returned True (lines 147-152): the next
\* attempt of "for attempt in range(3)", or the end of the loop and
\* "return False" (lines 162-163).
Retry(p) ==
    IF attempt[p] + 1 < MaxAttempts
    THEN [pc |-> "acquire", attempt |-> attempt[p] + 1, ret |-> "none", outcome |-> ""]
    ELSE ReturnFalse(p)

\* Where an exception raised in the try block of acquire leads, lines
\* 145-160: into the check, or to "return False".
AcquireCatch(p, exc) ==
    LET h == Handler(exc, AcquireExcepts)
    IN  IF h = "FileExistsError" THEN Continue(p, "check_open")
        ELSE IF h = "Exception" THEN ReturnFalse(p)
        ELSE Raised(p, "acquire_raised")

\* Where an exception raised in the try block of check_and_remove_stale_lock
\* leads, lines 117-130.  The check runs inside an except clause of acquire,
\* so what it does not catch leaves acquire too.
CheckCatch(p, exc) ==
    LET h == Handler(exc, CheckExcepts)
    IN  IF h = "FileNotFoundError" THEN ReturnFalse(p)
        ELSE IF h = "ValueError" THEN Continue(p, "check_remove_corrupt")
        ELSE IF h = "Exception" THEN ReturnFalse(p)
        ELSE Raised(p, "acquire_raised")

\* The write lost (never flushed): the created file stays empty.
written_nothing(p) == <<>>

\* What acquire writes into the file it created, line 140.
WrittenText(p) == str(getpid(p))

\* open(self.lock_filename, "x"), line 139; the first one begins the call.
acquire_open(p) ==
    /\ alive[p]
    /\ pc[p] \in {"idle", "acquire"}
    /\ \E o \in OpenXOutcomes :
        /\ disk' = DiskAfter(o)
        /\ LET starting == pc[p] = "idle"
               created == o = "ok"
               i == FreshInode
               lf == [lock_file EXCEPT ![p] = i]
               k0 == IF created THEN Continue(p, "acquire_write") ELSE AcquireCatch(p, o)
               k == [k0 EXCEPT !.attempt = IF starting THEN 0 ELSE attempt[p]]
           IN  /\ IF created
                  THEN /\ path' = i
                       /\ lock_file' = lf
                       /\ content' = Reclaim([content EXCEPT ![i] = <<>>], i, lf, rd)
                  ELSE \* FileExistsError, line 145, or another error, line 157
                       UNCHANGED <<path, lock_file, content>>
               /\ Step(p, starting, k, <<>>,
                       IF o \notin {"ok", "FileExistsError"} THEN "error"
                       ELSE IF starting THEN "none" ELSE verdict[p],
                       created \/ (~starting /\ mutated[p]))
    /\ UNCHANGED <<os_name, alive, rd, holding>>

\* self.lock_file.write(str(current_pid)); flush(); return True, lines
\* 140-144.  When the write or the flush fails, line 157 returns False: the
\* handle stays open and the file stays where it was created.
acquire_write(p) ==
    /\ alive[p]
    /\ pc[p] = "acquire_write"
    /\ \E o \in WriteOutcomes :
        /\ disk' = DiskAfter(o)
        /\ IF o = "ok"
           THEN /\ content' = [content EXCEPT ![lock_file[p]] = WrittenText(p)]
                /\ holding' = [holding EXCEPT ![p] = TRUE]
                /\ Step(p, FALSE, ReturnTrue(p), <<>>, verdict[p], mutated[p])
           ELSE /\ UNCHANGED <<content, holding>>
                /\ Step(p, FALSE, AcquireCatch(p, o), <<>>, "error", mutated[p])
    /\ UNCHANGED <<os_name, alive, path, lock_file, rd>>

\* open(self.lock_filename, "r"), line 97; FileNotFoundError, lines 117-119.
check_open(p) ==
    /\ alive[p]
    /\ pc[p] = "check_open"
    /\ \E o \in OpenROutcomes :
        /\ disk' = DiskAfter(o)
        /\ IF o = "ok"
           THEN /\ rd' = [rd EXCEPT ![p] = path]
                /\ Step(p, FALSE, Continue(p, "check_read"), <<>>, verdict[p], mutated[p])
           ELSE /\ rd' = rd
                /\ Step(p, FALSE, CheckCatch(p, o), <<>>,
                        IF o = "FileNotFoundError" THEN "missing" ELSE "error",
                        mutated[p])
    /\ UNCHANGED <<os_name, alive, path, content, lock_file, holding>>

\* Where the text read from the record leads, lines 99-108: the empty
\* branch, ValueError from int(), or the liveness query.
CheckBranch(txt) ==
    IF txt = <<>> THEN "check_remove_empty"
    ELSE IF ~IsInt(txt) THEN "check_remove_corrupt"
    ELSE "check_running"

\* f.read().strip() and int(locked_pid_str), lines 98-105.  The empty branch
\* stays inside the with block (the read handle is still open when it
\* removes); ValueError and the integer case leave the block first.
check_read(p) ==
    /\ alive[p]
    /\ pc[p] = "check_read"
    /\ \E o \in ReadOutcomes :
        /\ disk' = DiskAfter(o)
        /\ LET txt == IF o = "ok" THEN strip(content[rd[p]]) ELSE <<>>
               r == IF o = "ok" /\ CheckBranch(txt) = "check_remove_empty"
                    THEN rd ELSE [rd EXCEPT ![p] = 0]
           IN  /\ rd' = r
               /\ content' = Reclaim(content, path, lock_file, r)
               /\ IF o = "ok"
                  THEN Step(p, FALSE, Continue(p, CheckBranch(txt)), txt,
                            verdict[p], mutated[p])
                  ELSE Step(p, FALSE, CheckCatch(p, o), txt, "error", mutated[p])
    /\ UNCHANGED <<os_name, alive, path, lock_file, holding>>

\* os.remove inside the with block, lines 99-103; a failure is caught at
\* lines 117-119 or 128-130 and the check returns False.
check_remove_empty(p) ==
    /\ alive[p]
    /\ pc[p] = "check_remove_empty"
    /\ rd' = [rd EXCEPT ![p] = 0]
    /\ \E o \in RemoveOutcomes :
        /\ disk' = DiskAfter(o)
        /\ IF o = "ok"
           THEN /\ path' = 0
                /\ content' = Reclaim(content, 0, lock_file, rd')
                /\ StepD(p, FALSE, Retry(p), locked_pid_str[p], "empty", TRUE, 1)
           ELSE /\ path' = path
                /\ content' = Reclaim(content, path, lock_file, rd')
                /\ Step(p, FALSE, CheckCatch(p, o), locked_pid_str[p], "empty", mutated[p])
    /\ UNCHANGED <<os_name, alive, lock_file, holding>>

\* except ValueError, lines 120-127: a failed os.remove is swallowed (line
\* 125) and the check returns True either way.
check_remove_corrupt(p) ==
    /\ alive[p]
    /\ pc[p] = "check_remove_corrupt"
    /\ \E o \in RemoveOutcomes :
        /\ disk' = DiskAfter(o)
        /\ IF o = "ok"
           THEN /\ path' = 0
                /\ content' = Reclaim(content, 0, lock_file, rd)
                /\ StepD(p, FALSE, Retry(p), locked_pid_str[p], "corrupt", TRUE, 1)
           ELSE /\ UNCHANGED <<path, content>>
                /\ Step(p, FALSE,
                        IF Handler(o, CorruptRemoveExcepts) # "" THEN Retry(p)
                        ELSE Raised(p, "acquire_raised"),
                        locked_pid_str[p], "corrupt", mutated[p])
    /\ UNCHANGED <<os_name, alive, lock_file, rd, holding>>

\* self.is_process_running(locked_pid), lines 108 and 113-115.
check_running(p) ==
    /\ alive[p]
    /\ pc[p] = "check_running"
    /\ \E run \in is_process_running(int(locked_pid_str[p])) :
          IF run.raised
          THEN StepP(p, FALSE, CheckCatch(p, KillException(run.kill)),
                     locked_pid_str[p], "error", mutated[p], 0, run)
          ELSE IF run.running
          THEN StepP(p, FALSE, ReturnFalse(p), locked_pid_str[p], "active",
                     mutated[p], 0, run)
          ELSE StepP(p, FALSE, Continue(p, "check_remove_stale"),
                     locked_pid_str[p], "stale", mutated[p], 0, run)
    /\ UNCHANGED <<os_name, disk, alive, path, content, lock_file, rd, holding>>

\* os.remove of the stale record, lines 109-112; a failure is caught at
\* lines 117-119 or 128-130 and the check returns False.
check_remove_stale(p) ==
    /\ alive[p]
    /\ pc[p] = "check_remove_stale"
    /\ \E o \in RemoveOutcomes :
        /\ disk' = DiskAfter(o)
        /\ IF o = "ok"
           THEN /\ path' = 0
                /\ content' = Reclaim(content, 0, lock_file, rd)
                /\ StepD(p, FALSE, Retry(p), locked_pid_str[p], "stale", TRUE, 1)
           ELSE /\ UNCHANGED <<path, content>>
                /\ Step(p, FALSE, CheckCatch(p, o), locked_pid_str[p], "stale", mutated[p])
    /\ UNCHANGED <<os_name, alive, lock_file, rd, holding>>

\* -------------------------------------------------------------- release
\* release returns.
Released(p) ==
    [pc |-> "idle", attempt |-> attempt[p], ret |-> "none", outcome |-> "R"]

\* Where an exception raised in release leads: one raised in the inner try
\* block (lines 179-194) to the inner clauses, one raised outside it or in
\* one of its except clauses (line 198) to the outer clause, line 206.
\* Every clause logs and lets release return.
ReleaseCatch(p, exc, outside_inner_try) ==
    IF ~outside_inner_try /\ Handler(exc, ReleaseInnerExcepts) # "" THEN Released(p)
    ELSE IF Handler(exc, ReleaseOuterExcepts) # "" THEN Released(p)
    ELSE Raised(p, "release_raised")

\* The pid comparison never succeeding (text compared with an integer):
\* release takes its own record for another's.
release_verdict_never_own(p, txt) ==
    IF txt = <<>> THEN "empty"
    ELSE IF ~IsInt(txt) THEN "corrupt"
    ELSE "other"

\* What release makes of the text it read, lines 182-194: "empty", "corrupt"
\* (int() raised ValueError), "own" (pid_in_file == current_pid) or "other".
ReleaseVerdict(p, txt) ==
    IF txt = <<>> THEN "empty"
    ELSE IF ~IsInt(txt) THEN "corrupt"
    ELSE IF int(txt) = getpid(p) THEN "own"
    ELSE "other"
\* Release without the ownership test: whatever is at the path is removed.
release_removes_any(v) == TRUE

\* Release that deletes its own record only, and leaves an empty or
\* non-numeric file where it is.
release_removes_own_only(v) == v = "own"

\* Lines 184, 191 and 198 remove the file; lines 193-194 do not.
ReleaseRemoves(v) == v \in {"empty", "corrupt", "own"}

\* self.lock_file after lines 169-172: None, or the closed file object when
\* close() raised and the assignment of line 172 was skipped.
AfterClose(o) == IF o = "ok" THEN 0 ELSE ClosedFile

\* self.lock_file.close(); self.lock_file = None, lines 169-172: the first
\* step of release.  A handle already closed is not closed again (line 169).
\* A close that fails has still closed the handle; line 172 is skipped and
\* line 206 ends the call.
release_close(p) ==
    /\ alive[p]
    /\ pc[p] = "idle"
    /\ holding' = [holding EXCEPT ![p] = FALSE]
    /\ \E o \in CloseOutcomes(p) :
        /\ lock_file' = [lock_file EXCEPT ![p] = AfterClose(o)]
        /\ content' = Reclaim(content, path, lock_file', rd)
        /\ disk' = DiskAfter(o)
        /\ IF o = "ok"
           THEN Step(p, TRUE, Continue(p, "release_exists"), <<>>, "none", FALSE)
           ELSE Step(p, TRUE, ReleaseCatch(p, o, TRUE), <<>>, "error", FALSE)
    /\ UNCHANGED <<os_name, alive, path, rd>>

\* os.path.exists(self.lock_filename), lines 176 and 204-205.
release_exists(p) ==
    /\ alive[p]
    /\ pc[p] = "release_exists"
    /\ IF path = 0
       THEN Step(p, FALSE, Released(p), <<>>, "missing", mutated[p])
       ELSE Step(p, FALSE, Continue(p, "release_open"), <<>>, verdict[p], mutated[p])
    /\ UNCHANGED <<os_name, disk, alive, path, content, lock_file, rd, holding>>

\* open(self.lock_filename, "r"), line 179; FileNotFoundError, lines 200-201.
release_open(p) ==
    /\ alive[p]
    /\ pc[p] = "release_open"
    /\ \E o \in OpenROutcomes :
        /\ disk' = DiskAfter(o)
        /\ IF o = "ok"
           THEN /\ rd' = [rd EXCEPT ![p] = path]
                /\ Step(p, FALSE, Continue(p, "release_read"), <<>>, verdict[p], mutated[p])
           ELSE /\ rd' = rd
                /\ Step(p, FALSE, ReleaseCatch(p, o, FALSE), <<>>,
                        IF o = "FileNotFoundError" THEN "missing" ELSE "unreadable",
                        mutated[p])
    /\ UNCHANGED <<os_name, alive, path, content, lock_file, holding>>

\* f.read().strip(), the end of the with block, and the tests of lines
\* 182-194.
release_read(p) ==
    /\ alive[p]
    /\ pc[p] = "release_read"
    /\ \E o \in ReadOutcomes :
        /\ disk' = DiskAfter(o)
        /\ LET txt == IF o = "ok" THEN strip(content[rd[p]]) ELSE <<>>
               v == ReleaseVerdict(p, txt)
           IN  /\ rd' = [rd EXCEPT ![p] = 0]
               /\ content' = Reclaim(content, path, lock_file, rd')
               /\ IF o # "ok"
                  THEN Step(p, FALSE, ReleaseCatch(p, o, FALSE), txt, "unreadable",
                            mutated[p])
                  ELSE IF ReleaseRemoves(v)
                  THEN Step(p, FALSE, Continue(p, "release_remove"), txt, v, mutated[p])
                  ELSE Step(p, FALSE, Released(p), txt, v, mutated[p])
    /\ UNCHANGED <<os_name, alive, path, lock_file, holding>>

\* os.remove(self.lock_filename), lines 184, 191 and 198; what it raises is
\* caught (lines 200-207) and release returns.  Line 198 is inside the
\* except ValueError clause, outside the inner try block.
release_remove(p) ==
    /\ alive[p]
    /\ pc[p] = "release_remove"
    /\ \E o \in RemoveOutcomes :
        /\ disk' = DiskAfter(o)
        /\ IF o = "ok"
           THEN /\ path' = 0
                /\ content' = Reclaim(content, 0, lock_file, rd)
                /\ StepD(p, FALSE, Released(p), locked_pid_str[p], verdict[p], TRUE, 1)
           ELSE /\ UNCHANGED <<path, content>>
                /\ Step(p, FALSE, ReleaseCatch(p, o, verdict[p] = "corrupt"),
                        locked_pid_str[p], verdict[p], mutated[p])
    /\ UNCHANGED <<os_name, alive, lock_file, rd, holding>>

\* ---------------------------------------------------------------- crash
\* The process dies (kill -9, power loss) wherever it is: release does not
\* run, the operating system closes its handles, and what it created stays.
crash(p) ==
    /\ alive[p]
    /\ alive' = [alive EXCEPT ![p] = FALSE]
    /\ lock_file' = [lock_file EXCEPT ![p] = 0]
    /\ rd' = [rd EXCEPT ![p] = 0]
    /\ content' = Reclaim(content, path, lock_file', rd')
    /\ holding' = [holding EXCEPT ![p] = FALSE]
    /\ pc' = [pc EXCEPT ![p] = "dead"]
    /\ attempt' = Upd(attempt, p, 0, 0)
    /\ ret' = Upd(ret, p, "none", "none")
    /\ locked_pid_str' = Upd(locked_pid_str, p, <<>>, <<>>)
    /\ verdict' = Upd(verdict, p, "none", "none")
    /\ mutated' = Upd(mutated, p, FALSE, FALSE)
    /\ deletions' = Upd(deletions, p, 0, 0)
    /\ lf0' = Upd(lf0, p, 0, 0)
    /\ actor' = p
    /\ dirty' = FALSE
    /\ trail' = <<>>
    /\ rec0' = Unknown
    /\ probe' = NoProbe
    /\ crashed' = [crashed EXCEPT ![p] = IF pc[p] = "acquire_write" THEN "created"
                                         ELSE IF holding[p] THEN "holding"
                                         ELSE ""]
    /\ UNCHANGED <<os_name, disk, path, entry, stage, exit_status, handlers,
                   acquires, releases, ended, seen_live, race>>

\* ----------------------------------------------------------------- Next
Next ==
    \E p \in Procs :
        \/ acquire_open(p)
        \/ acquire_write(p)
        \/ check_open(p)
        \/ check_read(p)
        \/ check_remove_empty(p)
        \/ check_remove_corrupt(p)
        \/ check_running(p)
        \/ check_remove_stale(p)
        \/ release_close(p)
        \/ release_exists(p)
        \/ release_open(p)
        \/ release_read(p)
        \/ release_remove(p)
        \/ crash(p)

Spec == Init /\ [][Next]_vars

\* ---------------------------------------------------------------- races
\* The records a race can start on: every record of InitRecords that does
\* not hold the pid of a live process.
RaceRecords ==
    { r \in InitRecords : r = NoFile \/ ~IsInt(strip(r))
                             \/ \A p \in Procs : int(strip(r)) # getpid(p) }

\* Every process calls acquire once, at any time, on a sound file system;
\* no process crashes.
RaceInit ==
    /\ LockInit
    /\ disk = "sound"
    /\ FileText \in RaceRecords
    /\ entry = "race"
    /\ stage = [p \in Procs |-> "race"]
    /\ ScriptInit

RaceNext ==
    \E p \in Procs :
        \/ ((pc[p] = "idle" => race[p] = "none") /\ acquire_open(p))
        \/ acquire_write(p)
        \/ check_open(p)
        \/ check_read(p)
        \/ check_remove_empty(p)
        \/ check_remove_corrupt(p)
        \/ check_running(p)
        \/ check_remove_stale(p)

RaceSpec == RaceInit /\ [][RaceNext]_vars

\* ======================================================= the bot scripts
\* src/BOT2_PythonAnywhere.py (entry = "current") and the older
\* src/telegram bot ece/BOT2_PythonAnywhere.py (entry = "legacy"), each
\* started once per process in its own directory.

\* A script whose text does not contain the marker.
script_without_marker == FALSE
\* The text of the script contains the marker it searches itself for: the
\* string literal of line 341 is such an occurrence.
ScriptHasMarker == TRUE
\* open(__file__).read(), lines 343-349: the text is read, or the read
\* raises and the lock stays enabled.
MarkerOutcomes == {"read", "error"}
lock_is_disabled_by_marker(o) == o = "read" /\ ScriptHasMarker

\* The script of p moves on without touching the lock.
Script(p, to) ==
    /\ alive[p]
    /\ stage' = [stage EXCEPT ![p] = to]
    /\ probe' = NoProbe
    /\ UNCHANGED <<os_name, disk, alive, path, content, lock_file, rd, pc, attempt,
                   locked_pid_str, ret, holding, verdict, mutated, deletions,
                   lf0, rec0, actor, dirty, trail, entry, seen_live, crashed,
                   race>>

\* The script starts, line 336.
bot_start(p) ==
    /\ entry = "current" /\ stage[p] = "off"
    /\ Script(p, "marker")
    /\ UNCHANGED <<exit_status, handlers, acquires, releases, ended>>

\* The script reads its own text, lines 343-345, or fails to, lines 348-349.
bot_read_script(p) ==
    /\ entry = "current" /\ stage[p] = "marker"
    /\ \E o \in MarkerOutcomes :
          Script(p, IF o = "read" THEN "script_read" ELSE "script_error")
    /\ UNCHANGED <<exit_status, handlers, acquires, releases, ended>>

\* The marker check, lines 345-346, and the branch, lines 351 and 364.
bot_marker(p) ==
    /\ entry = "current" /\ stage[p] \in {"script_read", "script_error"}
    /\ LET o == IF stage[p] = "script_read" THEN "read" ELSE "error"
       IN  Script(p, IF lock_is_disabled_by_marker(o) THEN "cleanup" ELSE "lock")
    /\ UNCHANGED <<exit_status, handlers, acquires, releases, ended>>

\* os.path.exists(lock_file_path_for_cleanup), lines 353-354.
bot_cleanup_exists(p) ==
    /\ entry = "current" /\ stage[p] = "cleanup"
    /\ Script(p, IF path # 0 THEN "cleanup_remove" ELSE "run_bot")
    /\ UNCHANGED <<exit_status, handlers, acquires, releases, ended>>

\* os.remove(lock_file_path_for_cleanup), lines 356-363; OSError is logged.
bot_cleanup_remove(p) ==
    /\ entry = "current" /\ stage[p] = "cleanup_remove"
    /\ alive[p]
    /\ IF RemoveOutcome = "ok"
       THEN /\ path' = 0
            /\ content' = Reclaim(content, 0, lock_file, rd)
       ELSE UNCHANGED <<path, content>>
    /\ stage' = [stage EXCEPT ![p] = "run_bot"]
    /\ actor' = p
    /\ dirty' = TRUE
    /\ trail' = <<>>
    /\ rec0' = Unknown
    /\ probe' = NoProbe
    /\ UNCHANGED <<os_name, disk, alive, lock_file, rd, pc, attempt, locked_pid_str,
                   ret, holding, verdict, mutated, deletions, lf0, entry, crashed,
                   seen_live, race,
                   exit_status, handlers, acquires, releases, ended>>

\* lock = InstanceLock(); lock.acquire() is called, lines 367-368.
bot_lock(p) ==
    /\ entry = "current" /\ stage[p] = "lock"
    /\ Script(p, "acquire")
    /\ acquires' = [acquires EXCEPT ![p] = @ + 1]
    /\ UNCHANGED <<exit_status, handlers, releases, ended>>

\* acquire returned False: the messages and sys.exit(1), lines 376-385.
bot_refused(p) ==
    /\ entry = "current" /\ stage[p] = "refused"
    /\ Script(p, "exited")
    /\ exit_status' = [exit_status EXCEPT ![p] = 1]
    /\ ended' = [ended EXCEPT ![p] = "refused"]
    /\ UNCHANGED <<handlers, acquires, releases>>

\* How run_bot can end (or main of the older script, once it serves).
RunEnds == {"return", "exception", "sys.exit"}
\* The exit status of a script that ended that way.
ExitStatuses(how) ==
    CASE how = "return" -> {0}
      [] how = "exception" -> {1}
      [] how = "sys.exit" -> {0, 1}
      [] OTHER -> {1}

\* run_bot left by the bypass branch at once, as if no try / finally were
\* around it.
after_run_bot_no_finally(p) == "exiting"
\* run_bot followed by the release of the lock on both branches.
after_run_bot_always_finally(p) == "finally"
\* Where the script goes when run_bot has ended: into the finally clause of
\* lines 372-375 when it runs under the lock, to its end after line 363.
AfterRunBot(p) == IF acquires[p] > 0 THEN "finally" ELSE "exiting"

\* run_bot builds the application and registers the handlers, lines 296-315;
\* building can raise.
run_bot_setup(p) ==
    /\ entry = "current" /\ stage[p] = "run_bot"
    /\ \E ok \in BOOLEAN :
          IF ok
          THEN /\ Script(p, "configured")
               /\ handlers' = [handlers EXCEPT ![p] = TRUE]
               /\ ended' = ended
          ELSE /\ Script(p, AfterRunBot(p))
               /\ handlers' = handlers
               /\ ended' = [ended EXCEPT ![p] = "exception"]
    /\ UNCHANGED <<exit_status, acquires, releases>>

\* application.run_webhook / run_polling starts, lines 317-331.
run_bot_serve(p) ==
    /\ entry = "current" /\ stage[p] = "configured"
    /\ Script(p, "serving")
    /\ UNCHANGED <<exit_status, handlers, acquires, releases, ended>>

\* The serve loop ends and run_bot with it.
run_bot_end(p) ==
    /\ entry = "current" /\ stage[p] = "serving"
    /\ \E how \in RunEnds :
          /\ Script(p, AfterRunBot(p))
          /\ ended' = [ended EXCEPT ![p] = how]
    /\ UNCHANGED <<exit_status, handlers, acquires, releases>>

\* finally: lock.release() is called, lines 372-374.
bot_finally(p) ==
    /\ entry = "current" /\ stage[p] = "finally"
    /\ Script(p, "release")
    /\ releases' = [releases EXCEPT ![p] = @ + 1]
    /\ UNCHANGED <<exit_status, handlers, acquires, ended>>

\* The script ends, lines 375 and 387, or the exception or SystemExit that
\* ended run_bot ends it.
bot_exit(p) ==
    /\ entry = "current" /\ stage[p] \in {"finished", "exiting"}
    /\ Script(p, "exited")
    /\ \E st \in ExitStatuses(ended[p]) : exit_status' = [exit_status EXCEPT ![p] = st]
    /\ UNCHANGED <<handlers, acquires, releases, ended>>

\* ------------------------------------- the older script: acquire_lock
\* main() calls acquire_lock(), line 365 of src/telegram bot ece/
\* BOT2_PythonAnywhere.py.
legacy_start(p) ==
    /\ entry = "legacy" /\ stage[p] = "off"
    /\ Script(p, "acquire")
    /\ acquires' = [acquires EXCEPT ![p] = @ + 1]
    /\ UNCHANGED <<exit_status, handlers, releases, ended>>

\* open(lock_filename, "x"), line 64, on the first call and on every
\* "return acquire_lock()"; FileExistsError, line 76.
lg_open(p) ==
    /\ entry = "legacy" /\ stage[p] = "acquire"
    /\ alive[p]
    /\ pc[p] \in {"idle", "lg_open"}
    /\ LET starting == pc[p] = "idle"
           created == path = 0
           i == FreshInode
           lf == [lock_file EXCEPT ![p] = i]
           k == [Continue(p, IF created THEN "lg_write" ELSE "lg_check_open")
                    EXCEPT !.attempt = 0]
       IN  /\ IF created
              THEN /\ path' = i
                   /\ lock_file' = lf
                   /\ content' = Reclaim([content EXCEPT ![i] = <<>>], i, lf, rd)
              ELSE UNCHANGED <<path, lock_file, content>>
           /\ Step(p, starting, k, <<>>, IF starting THEN "none" ELSE verdict[p],
                   created \/ (~starting /\ mutated[p]))
    /\ UNCHANGED <<os_name, disk, alive, rd, holding>>

\* lock_file.write(str(os.getpid())); flush(); atexit.register(release_lock);
\* return True, lines 67-74.
lg_write(p) ==
    /\ alive[p]
    /\ pc[p] = "lg_write"
    /\ content' = [content EXCEPT ![lock_file[p]] = str(getpid(p))]
    /\ holding' = [holding EXCEPT ![p] = TRUE]
    /\ Step(p, FALSE, ReturnTrue(p), <<>>, verdict[p], mutated[p])
    /\ UNCHANGED <<os_name, disk, alive, path, lock_file, rd>>

\* open(lock_filename, "r"), line 79; FileNotFoundError is an IOError and
\* line 94 catches it.
lg_check_open(p) ==
    /\ alive[p]
    /\ pc[p] = "lg_check_open"
    /\ IF path = 0
       THEN /\ rd' = rd
            /\ Step(p, FALSE, Continue(p, "lg_remove_corrupt"), <<>>, "missing", mutated[p])
       ELSE /\ rd' = [rd EXCEPT ![p] = path]
            /\ Step(p, FALSE, Continue(p, "lg_read"), <<>>, verdict[p], mutated[p])
    /\ UNCHANGED <<os_name, disk, alive, path, content, lock_file, holding>>

\* pid = int(f.read().strip()), line 80; ValueError (an empty record too)
\* leads to line 94.
lg_read(p) ==
    /\ alive[p]
    /\ pc[p] = "lg_read"
    /\ LET txt == strip(content[rd[p]])
       IN  /\ rd' = [rd EXCEPT ![p] = 0]
           /\ content' = Reclaim(content, path, lock_file, rd')
           /\ IF IsInt(txt)
              THEN Step(p, FALSE, Continue(p, "lg_kill"), txt, verdict[p], mutated[p])
              ELSE Step(p, FALSE, Continue(p, "lg_remove_corrupt"), txt, "corrupt", mutated[p])
    /\ UNCHANGED <<os_name, disk, alive, path, lock_file, holding>>

\* os.kill(pid, 0), lines 83-88: no error, "return False"; OSError (ESRCH,
\* and EPERM as well) makes the record stale; anything else is caught at
\* line 100, "return False".
lg_kill(p) ==
    /\ alive[p]
    /\ pc[p] = "lg_kill"
    /\ \E o \in KillOutcomes(int(locked_pid_str[p])) :
          LET pr == [NoProbe EXCEPT !.done = TRUE, !.pid = int(locked_pid_str[p]),
                                    !.kill = o]
          IN  IF o \in {"ESRCH", "EPERM"}
              THEN StepP(p, FALSE, Continue(p, "lg_remove_stale"),
                         locked_pid_str[p], "stale", mutated[p], 0, pr)
              ELSE StepP(p, FALSE, ReturnFalse(p), locked_pid_str[p],
                         IF o = "ok" THEN "active" ELSE "error", mutated[p], 0, pr)
    /\ UNCHANGED <<os_name, disk, alive, path, content, lock_file, rd, holding>>

\* os.remove(lock_filename); return acquire_lock(), lines 90-92.  When the
\* remove fails, its OSError is raised inside the except clause of line 88
\* and caught by line 94, which removes again.
lg_remove_stale(p) ==
    /\ alive[p]
    /\ pc[p] = "lg_remove_stale"
    /\ IF RemoveOutcome = "ok"
       THEN /\ path' = 0
            /\ content' = Reclaim(content, 0, lock_file, rd)
            /\ StepD(p, FALSE, Continue(p, "lg_open"), locked_pid_str[p], "stale", TRUE, 1)
       ELSE /\ UNCHANGED <<path, content>>
            /\ Step(p, FALSE, Continue(p, "lg_remove_corrupt"),
                    locked_pid_str[p], "stale", mutated[p])
    /\ UNCHANGED <<os_name, disk, alive, lock_file, rd, holding>>

\* os.remove(lock_filename); return acquire_lock(), lines 94-98.  Nothing
\* catches what this remove raises: it leaves acquire_lock and main.
lg_remove_corrupt(p) ==
    /\ alive[p]
    /\ pc[p] = "lg_remove_corrupt"
    /\ IF RemoveOutcome = "ok"
       THEN /\ path' = 0
            /\ content' = Reclaim(content, 0, lock_file, rd)
            /\ StepD(p, FALSE, Continue(p, "lg_open"), locked_pid_str[p], verdict[p], TRUE, 1)
       ELSE /\ UNCHANGED <<path, content>>
            /\ Step(p, FALSE, Raised(p, "acquire_raised"),
                    locked_pid_str[p], verdict[p], mutated[p])
    /\ UNCHANGED <<os_name, disk, alive, lock_file, rd, holding>>

\* acquire_lock returned False: main logs and returns, lines 365-367; the
\* interpreter ends with status 0.
legacy_refused(p) ==
    /\ entry = "legacy" /\ stage[p] = "refused"
    /\ Script(p, "exited")
    /\ exit_status' = [exit_status EXCEPT ![p] = 0]
    /\ ended' = [ended EXCEPT ![p] = "refused"]
    /\ UNCHANGED <<handlers, acquires, releases>>

\* An exception left acquire_lock and main: traceback, status 1.
legacy_traceback(p) ==
    /\ entry = "legacy" /\ stage[p] = "traceback"
    /\ Script(p, "exited")
    /\ exit_status' = [exit_status EXCEPT ![p] = 1]
    /\ ended' = [ended EXCEPT ![p] = "exception"]
    /\ UNCHANGED <<handlers, acquires, releases>>

\* main builds the application and registers the handlers, lines 372-399.
legacy_setup(p) ==
    /\ entry = "legacy" /\ stage[p] = "run_bot"
    /\ \E ok \in BOOLEAN :
          IF ok
          THEN /\ Script(p, "configured")
               /\ handlers' = [handlers EXCEPT ![p] = TRUE]
               /\ ended' = ended
          ELSE /\ Script(p, "atexit")
               /\ handlers' = handlers
               /\ ended' = [ended EXCEPT ![p] = "exception"]
    /\ UNCHANGED <<exit_status, acquires, releases>>

\* app.run_polling starts, line 404.
legacy_serve(p) ==
    /\ entry = "legacy" /\ stage[p] = "configured"
    /\ Script(p, "serving")
    /\ UNCHANGED <<exit_status, handlers, acquires, releases, ended>>

\* The serve loop ends and main with it; the interpreter runs the atexit
\* functions.
legacy_end(p) ==
    /\ entry = "legacy" /\ stage[p] = "serving"
    /\ \E how \in RunEnds :
          /\ Script(p, "atexit")
          /\ ended' = [ended EXCEPT ![p] = how]
    /\ UNCHANGED <<exit_status, handlers, acquires, releases>>

\* release_lock, registered at line 71, is called at exit.
legacy_atexit(p) ==
    /\ entry = "legacy" /\ stage[p] = "atexit"
    /\ Script(p, "release")
    /\ releases' = [releases EXCEPT ![p] = @ + 1]
    /\ UNCHANGED <<exit_status, handlers, acquires, ended>>

\* lock_file.close(), lines 110-111.
lg_release_close(p) ==
    /\ entry = "legacy" /\ stage[p] = "release"
    /\ alive[p]
    /\ pc[p] = "idle"
    /\ lock_file' = [lock_file EXCEPT ![p] = 0]
    /\ content' = Reclaim(content, path, lock_file', rd)
    /\ holding' = [holding EXCEPT ![p] = FALSE]
    /\ Step(p, TRUE, Continue(p, "lg_release_exists"), <<>>, "none", FALSE)
    /\ UNCHANGED <<os_name, disk, alive, path, rd>>

\* os.path.exists(lock_filename), line 113.
lg_release_exists(p) ==
    /\ alive[p]
    /\ pc[p] = "lg_release_exists"
    /\ IF path = 0
       THEN Step(p, FALSE, Released(p), <<>>, "missing", mutated[p])
       ELSE Step(p, FALSE, Continue(p, "lg_release_remove"), <<>>, verdict[p], mutated[p])
    /\ UNCHANGED <<os_name, disk, alive, path, content, lock_file, rd, holding>>

\* os.remove(lock_filename), lines 114-118, whatever the file holds; an
\* exception is logged.
lg_release_remove(p) ==
    /\ alive[p]
    /\ pc[p] = "lg_release_remove"
    /\ IF RemoveOutcome = "ok"
       THEN /\ path' = 0
            /\ content' = Reclaim(content, 0, lock_file, rd)
            /\ StepD(p, FALSE, Released(p), <<>>, verdict[p], TRUE, 1)
       ELSE /\ UNCHANGED <<path, content>>
            /\ Step(p, FALSE, Released(p), <<>>, verdict[p], mutated[p])
    /\ UNCHANGED <<os_name, disk, alive, lock_file, rd, holding>>

\* The interpreter ends after the atexit functions.
legacy_exit(p) ==
    /\ entry = "legacy" /\ stage[p] = "finished"
    /\ Script(p, "exited")
    /\ \E st \in ExitStatuses(ended[p]) : exit_status' = [exit_status EXCEPT ![p] = st]
    /\ UNCHANGED <<handlers, acquires, releases, ended>>

\* ------------------------------------------------------------- BotSpec
\* What the scripts find in their directory when they start.
BotRecords == { NoFile, <<>>, <<"a", "b", "c">>, str(99999999) }

\* Both processes start the same script in the same directory, on a sound
\* file system, and run until they exit by themselves; the older script runs
\* on POSIX (os.kill).
BotInit ==
    /\ LockInit
    /\ disk = "sound"
    /\ FileText \in BotRecords
    /\ entry \in {"current", "legacy"}
    /\ entry = "legacy" => os_name = "posix"
    /\ stage = [p \in Procs |-> "off"]
    /\ ScriptInit

BotNext ==
    \E p \in Procs :
        \/ bot_start(p)
        \/ bot_read_script(p)
        \/ bot_marker(p)
        \/ bot_cleanup_exists(p)
        \/ bot_cleanup_remove(p)
        \/ bot_lock(p)
        \/ bot_refused(p)
        \/ run_bot_setup(p)
        \/ run_bot_serve(p)
        \/ run_bot_end(p)
        \/ bot_finally(p)
        \/ bot_exit(p)
        \/ (entry = "current" /\ stage[p] = "acquire" /\ acquire_open(p))
        \/ (entry = "current" /\ acquire_write(p))
        \/ (entry = "current" /\ check_open(p))
        \/ (entry = "current" /\ check_read(p))
        \/ (entry = "current" /\ check_remove_empty(p))
        \/ (entry = "current" /\ check_remove_corrupt(p))
        \/ (entry = "current" /\ check_running(p))
        \/ (entry = "current" /\ check_remove_stale(p))
        \/ (entry = "current" /\ stage[p] = "release" /\ release_close(p))
        \/ (entry = "current" /\ release_exists(p))
        \/ (entry = "current" /\ release_open(p))
        \/ (entry = "current" /\ release_read(p))
        \/ (entry = "current" /\ release_remove(p))
        \/ legacy_start(p)
        \/ lg_open(p)
        \/ lg_write(p)
        \/ lg_check_open(p)
        \/ lg_read(p)
        \/ lg_kill(p)
        \/ lg_remove_stale(p)
        \/ lg_remove_corrupt(p)
        \/ legacy_refused(p)
        \/ legacy_traceback(p)
        \/ legacy_setup(p)
        \/ legacy_serve(p)
        \/ legacy_end(p)
        \/ legacy_atexit(p)
        \/ lg_release_close(p)
        \/ lg_release_exists(p)
        \/ lg_release_remove(p)
        \/ legacy_exit(p)

BotSpec == BotInit /\ [][BotNext]_vars

\* ================================================================ claims
\* The text of the record at the path parses to the pid of a live process.
LiveRecord(txt) == IsInt(strip(txt)) /\ PidAlive(int(strip(txt)))
\* Process p takes the step of its call that starts at one of the locations.
StepsFrom(p, locs) == pc[p] \in locs /\ pc'[p] # pc[p] /\ alive'[p]
CheckRemoves == {"check_remove_empty", "check_remove_corrupt", "check_remove_stale"}

\* C1: mutual exclusion: at most one live process at a time is between an
\* acquire that returned True and its own following release.
MutualExclusion ==
    \A p, q \in Procs : (holding[p] /\ holding[q]) => p = q

\* C2: while a process holds the lock, the lock file exists and its content
\* is exactly the decimal text of that process's pid.
HolderRecord ==
    \A p \in Procs : holding[p] => (path # 0 /\ content[path] = str(getpid(p)))

\* C3: no deletion made by acquire (in check_and_remove_stale_lock) removes a
\* record that holds the pid of a live process at that moment; what it removes
\* is the record it read and judged.
NoLiveDelete ==
    [][\A p \in Procs :
          (StepsFrom(p, CheckRemoves) /\ path # 0 /\ path' = 0)
              => (~LiveRecord(content[path])
                  /\ strip(content[path]) = locked_pid_str[p])]_vars

\* C4: release called by a process that does not own the lock (self.lock_file
\* was None when the call began) never removes the file of another live
\* process, not even one that process has created and not yet written.
NonOwnerReleaseKeeps ==
    [][\A p \in Procs :
          (/\ StepsFrom(p, {"release_remove"})
           /\ lf0[p] = 0
           /\ path # 0
           /\ \E q \in Procs \ {p} : alive[q] /\ lock_file[q] = path)
              => path' = path]_vars

\* C5: when the record release reads parses to a pid other than the caller's,
\* release returns at once and neither deletes nor modifies the file, whether
\* or not the caller had acquired the lock.
ReleaseKeepsOther ==
    [][\A p \in Procs :
          LET txt == strip(content[rd[p]])
          IN  (/\ StepsFrom(p, {"release_read"})
               /\ IsInt(txt)
               /\ int(txt) # getpid(p))
                  => (/\ path' = path
                      /\ FileText' = FileText
                      /\ pc'[p] = "idle"
                      /\ ~mutated'[p])]_vars
\* Reached: a process that had acquired the lock releases, finds the pid of
\* the other process in the file, and leaves the file in place.
ReleaseKeptOther ==
    \E p \in Procs :
        /\ actor = p /\ pc[p] = "idle" /\ verdict[p] = "other"
        /\ lf0[p] # 0
        /\ path # 0 /\ \E q \in Procs \ {p} : content[path] = str(getpid(q))

\* The call process p has just returned from ran from start to end with
\* every other process resting, and nothing has happened since.
CleanCall(p, outcomes) ==
    /\ actor = p
    /\ pc[p] = "idle"
    /\ trail # <<>>
    /\ trail[Len(trail)] \in outcomes
\* Such a call on a file system that has not failed.
SoundCall(p, outcomes) == CleanCall(p, outcomes) /\ disk # "failed"
AcquireOutcomes == {"A+", "A-"}
OwnRecord(p) == path # 0 /\ content[path] = str(getpid(p))

\* C6: staleness recovery: an undisturbed acquire that finds a record whose
\* pid the liveness check reports as not running returns True, and the file
\* then holds the caller's pid.
StalenessRecovery ==
    \A p \in Procs :
        (/\ SoundCall(p, AcquireOutcomes)
         /\ rec0 # NoFile /\ IsInt(strip(rec0)) /\ ~PidAlive(int(strip(rec0)))
         /\ verdict[p] = "stale")
            => (ret[p] = "true" /\ OwnRecord(p) /\ lock_file[p] = path)
StaleRecovered ==
    \E p \in Procs :
        /\ SoundCall(p, AcquireOutcomes)
        /\ rec0 = str(99999999)
        /\ verdict[p] = "stale" /\ attempt[p] = 1
        /\ ret[p] = "true" /\ OwnRecord(p)

\* C7: corruption recovery: an undisturbed acquire that finds an empty,
\* whitespace-only or non-numeric record deletes it, returns True, and the
\* file then holds the caller's pid.
CorruptionRecovery ==
    \A p \in Procs :
        (/\ SoundCall(p, AcquireOutcomes)
         /\ rec0 # NoFile /\ ~IsInt(strip(rec0)))
            => (ret[p] = "true" /\ mutated[p] /\ OwnRecord(p))

\* C8: an undisturbed acquire that finds no file at the path returns True on
\* its first attempt; the file then holds the caller's pid as decimal text
\* and the instance keeps the open handle.
FreeAcquire ==
    \A p \in Procs :
        (SoundCall(p, AcquireOutcomes) /\ rec0 = NoFile)
            => (/\ ret[p] = "true"
                /\ attempt[p] = 0
                /\ OwnRecord(p)
                /\ lock_file[p] # 0 /\ lock_file[p] = path)
FreeAcquired ==
    \E p \in Procs :
        /\ SoundCall(p, AcquireOutcomes) /\ rec0 = NoFile
        /\ ret[p] = "true" /\ attempt[p] = 0
        /\ OwnRecord(p) /\ lock_file[p] = path

\* C9: contention: an undisturbed acquire that finds the pid of a live
\* process in the file returns False after one creation attempt, has written
\* and deleted nothing (the file is as it was) and leaves self.lock_file as
\* it was; under any interleaving, an acquire returns False as soon as its
\* check reports the recorded process running, self.lock_file untouched.
Contention ==
    \A p \in Procs :
        /\ (SoundCall(p, AcquireOutcomes) /\ LiveRecord(rec0))
              => (/\ ret[p] = "false"
                  /\ attempt[p] = 0
                  /\ verdict[p] = "active"
                  /\ ~mutated[p]
                  /\ FileText = rec0
                  /\ lock_file[p] = lf0[p])
        /\ verdict[p] = "active"
              => (pc[p] = "idle" /\ ret[p] = "false" /\ lock_file[p] = lf0[p])
Contended ==
    \E p \in Procs : \E q \in Procs \ {p} :
        /\ SoundCall(p, AcquireOutcomes)
        /\ rec0 = str(getpid(q)) /\ holding[q]
        /\ ret[p] = "false" /\ FileText = rec0

\* C10: idempotent release: undisturbed, the release that follows a
\* successful acquire removes the lock file and leaves the instance unowned;
\* a second release right after it changes neither the file system nor the
\* instance.
Ends(t, suffix) ==
    Len(t) >= Len(suffix) /\ SubSeq(t, Len(t) - Len(suffix) + 1, Len(t)) = suffix
IdempotentRelease ==
    \A p \in Procs :
        /\ (SoundCall(p, {"R"}) /\ Ends(trail, <<"A+", "R">>))
              => (path = 0 /\ lock_file[p] = 0 /\ mutated[p])
        /\ (SoundCall(p, {"R"}) /\ Ends(trail, <<"A+", "R", "R">>))
              => (path = 0 /\ lock_file[p] = 0 /\ lf0[p] = 0 /\ ~mutated[p])
ReleasedTwice ==
    \E p \in Procs :
        /\ SoundCall(p, {"R"})
        /\ Ends(trail, <<"A+", "R", "R">>)
        /\ path = 0

\* C11: acquire never lets an exception out: whatever the exclusive create,
\* the write and flush, the open and read of the record, the liveness query
\* and the delete answer, no acquire call ends by raising.
AcquireNeverRaises ==
    \A p \in Procs : pc[p] # "acquire_raised"
\* Reached: an acquire in which a call on the file failed with an I/O error
\* has returned False.
AcquireCaughtError ==
    \E p \in Procs :
        /\ actor = p /\ pc[p] = "idle"
        /\ ret[p] = "false" /\ verdict[p] = "error" /\ disk = "failed"

\* C12: release never lets an exception out: whatever closing the handle,
\* opening and reading the record and deleting it answer, no release call
\* ends by raising.
ReleaseNeverRaises ==
    \A p \in Procs : pc[p] # "release_raised"
\* Reached: a release that found a corrupt record has returned although its
\* delete, made inside the except clause, failed.
ReleaseCaughtError ==
    \E p \in Procs :
        /\ actor = p /\ pc[p] = "idle" /\ ret[p] = "none"
        /\ verdict[p] = "corrupt" /\ ~mutated[p]
        /\ path # 0 /\ ~IsInt(strip(content[path]))

\* C13: an acquire that returns False leaves no open handle in the instance
\* and no file it created at the path.  (Stated for an instance that had no
\* handle when the call began: the handle self.lock_file holds is then the
\* one on the file this call created.)
NoLeftoverOnFailure ==
    \A p \in Procs :
        (actor = p /\ pc[p] = "idle" /\ ret[p] = "false" /\ lf0[p] = 0)
            => (lock_file[p] = 0 /\ ~(mutated[p] /\ path # 0 /\ content[path] = <<>>))

\* C14: an undisturbed second acquire on an instance that owns the lock
\* returns True and changes neither the file nor the retained handle.
ReacquireIsNoOp ==
    \A p \in Procs :
        (/\ SoundCall(p, AcquireOutcomes)
         /\ Len(trail) >= 2 /\ trail[Len(trail) - 1] = "A+"
         /\ lf0[p] # 0)
            => (ret[p] = "true" /\ FileText = rec0 /\ lock_file[p] = lf0[p])

\* C15: bounded, non-waiting acquisition.  Inside an acquire call the next
\* step of the caller is always enabled, whatever the other processes do or
\* hold, and a record found live ends the call at once; every step either
\* ends the call or lowers a rank that counts the attempts left and the
\* steps left in the attempt; the call makes at most 3 creation attempts and
\* deletes at most 3 records.
AcquireLocs ==
    {"acquire", "acquire_write", "check_open", "check_read", "check_remove_empty",
     "check_remove_corrupt", "check_running", "check_remove_stale"}
AcquireStep(p) ==
    \/ acquire_open(p) \/ acquire_write(p) \/ check_open(p) \/ check_read(p)
    \/ check_remove_empty(p) \/ check_remove_corrupt(p) \/ check_running(p)
    \/ check_remove_stale(p)
Pos(loc) ==
    CASE loc = "acquire" -> 0
      [] loc \in {"acquire_write", "check_open"} -> 1
      [] loc = "check_read" -> 2
      [] loc \in {"check_remove_empty", "check_remove_corrupt", "check_running"} -> 3
      [] loc = "check_remove_stale" -> 4
      [] OTHER -> 5
Rank(p) == 5 * (MaxAttempts - attempt[p]) - Pos(pc[p])
NeverWaits ==
    \A p \in Procs : (alive[p] /\ pc[p] \in AcquireLocs) => ENABLED AcquireStep(p)
BoundedAcquire ==
    /\ []NeverWaits
    /\ [][\A p \in Procs :
             StepsFrom(p, AcquireLocs \cup {"idle"})
                => (/\ attempt'[p] < MaxAttempts
                    /\ deletions'[p] <= MaxAttempts
                    /\ (pc[p] = "check_running" /\ verdict'[p] = "active")
                          => pc'[p] = "idle"
                    /\ (pc[p] \in AcquireLocs /\ pc'[p] \in AcquireLocs)
                          => (Rank(p)' < Rank(p) /\ Rank(p)' > 0))]_vars
\* Reached: an acquire that used all its attempts and deleted three records
\* which a competing process kept creating has returned False.
BoundedOut ==
    \E p \in Procs :
        /\ actor = p /\ pc[p] = "idle" /\ ret[p] = "false"
        /\ attempt[p] = MaxAttempts - 1 /\ deletions[p] = MaxAttempts

\* C20: fail-closed: an undisturbed acquire that finds a record whose pid the
\* liveness probe cannot query (the probe raises) returns False and leaves
\* the lock file as it was.
FailClosed ==
    \A p \in Procs :
        (/\ SoundCall(p, AcquireOutcomes)
         /\ rec0 # NoFile /\ IsInt(strip(rec0)) /\ int(strip(rec0)) >= INT_MAX)
            => (ret[p] = "false" /\ FileText = rec0)

\* ------------------------------------------- claims on the liveness check
\* C21: for a pid <= 0 the liveness check of either platform returns "not
\* running" and makes no call to the operating system; an acquire that finds
\* a record holding 0 or a negative integer judges it stale, and undisturbed
\* it removes the record and returns True.
NonPositiveNotProbed ==
    /\ (probe.done /\ probe.pid <= 0)
          => (/\ probe.calls = <<>>
              /\ ~probe.running /\ ~probe.raised
              /\ verdict[actor] = "stale" /\ pc[actor] = "check_remove_stale")
    /\ \A p \in Procs :
          (/\ SoundCall(p, AcquireOutcomes)
           /\ rec0 # NoFile /\ IsInt(strip(rec0)) /\ int(strip(rec0)) <= 0)
              => (verdict[p] = "stale" /\ ret[p] = "true" /\ OwnRecord(p))
\* Reached: the check of a record holding 0 has just answered, having asked
\* the operating system nothing.
ZeroJudgedStale ==
    /\ probe.done /\ probe.pid = 0 /\ probe.calls = <<>>
    /\ locked_pid_str[actor] = <<"0">> /\ verdict[actor] = "stale"

\* C22: on POSIX, for a pid > 0, the liveness check returns True exactly when
\* os.kill(pid, 0) succeeded or failed with EPERM (so False for ESRCH and for
\* any other error), and it never raises.
PosixVariant ==
    (probe.done /\ os_name = "posix" /\ probe.pid > 0)
        => (/\ ~probe.raised
            /\ probe.calls = <<"os.kill">>
            /\ probe.running <=> probe.kill \in {"ok", "EPERM"}
            /\ probe.running <=> verdict[actor] = "active")
\* Reached: the probe of a live process failed with EPERM and the check
\* answered "running".
PosixEpermRunning ==
    /\ probe.done /\ os_name = "posix" /\ probe.pid > 0
    /\ probe.kill = "EPERM" /\ probe.running /\ verdict[actor] = "active"

\* C23: on Windows, for a pid > 0, the liveness check returns True exactly
\* when OpenProcess gave a handle and GetExitCodeProcess succeeded with
\* STILL_ACTIVE (259); whenever a handle was obtained, CloseHandle is the
\* last call the check makes, and it is made once.
HandleClosed(calls) ==
    /\ calls # <<>> /\ calls[Len(calls)] = "CloseHandle"
    /\ Cardinality({i \in 1 .. Len(calls) : calls[i] = "CloseHandle"}) = 1
WindowsVariant ==
    (probe.done /\ os_name = "nt" /\ probe.pid > 0)
        => (/\ probe.running <=> (/\ ~probe.query.raised
                                  /\ probe.query.handle
                                  /\ probe.query.query_ok
                                  /\ probe.query.exit_code = 259)
            /\ probe.query.handle => HandleClosed(probe.calls)
            /\ ~probe.query.handle
                  => \A i \in 1 .. Len(probe.calls) : probe.calls[i] # "CloseHandle")
\* Reached: a handle was obtained, the exit-code query on it failed, and the
\* check closed the handle and answered "not running".
WindowsQueryFailedClosed ==
    /\ probe.done /\ os_name = "nt" /\ probe.pid > 0
    /\ probe.query.handle /\ ~probe.query.query_ok
    /\ ~probe.running /\ HandleClosed(probe.calls)


\* ---------------------------------------------- claims on interleavings
\* Process q is alive and inside an acquire call.
InAcquire(q) == alive[q] /\ pc[q] \in AcquireLocs
\* C25: no partial record is observable.  No process reads, in its check, a
\* file whose live creator is inside acquire and has not yet written its pid
\* into it; and the check never removes, as empty or corrupt, the file a
\* live process inside acquire has just created.
NoPartialRecord ==
    [][\A p \in Procs : \A q \in Procs \ {p} :
          /\ (/\ StepsFrom(p, {"check_read"})
              /\ InAcquire(q) /\ lock_file[q] = rd[p])
                => content[rd[p]] = str(getpid(q))
          /\ (/\ StepsFrom(p, {"check_remove_empty", "check_remove_corrupt"})
              /\ InAcquire(q) /\ lock_file[q] = path)
                => path' = path]_vars

\* C26: a stale or absent record never blocks.  In a race in which no call
\* on the file fails and no removal is refused, an acquire returns False only
\* if the lock file held the pid of a live process at some moment of the
\* call.
StaleNeverBlocks ==
    \A p \in Procs :
        (/\ actor = p /\ pc[p] = "idle" /\ ret[p] = "false"
         /\ race[p] = "false" /\ disk = "sound")
            => (seen_live[p] \/ LiveNow)


\* C27: crash recovery.  After a process has crashed between its exclusive
\* create and its write, or while it held the lock, an undisturbed acquire of
\* a live process that holds no lock and finds what the crashed process left
\* (an empty file, or the pid of the crashed process) returns True.
CrashRecovery ==
    \A p \in Procs : \A q \in Procs \ {p} :
        (/\ SoundCall(p, AcquireOutcomes)
         /\ ~alive[q] /\ crashed[q] \in {"created", "holding"}
         /\ rec0 \in {<<>>, str(getpid(q))}
         /\ lf0[p] = 0)
            => (ret[p] = "true" /\ OwnRecord(p))


\* C29: check_and_remove_stale_lock returns True (acquire goes on to its next
\* attempt) only when this call removed the file that was at the path; it
\* returns False (acquire returns False) when the lock is active, the file
\* is not found, or the check or the removal failed.
CheckTrueMeansRemoved ==
    [][\A p \in Procs :
          /\ (StepsFrom(p, CheckRemoves) /\ pc'[p] = "acquire")
                => (path # 0 /\ path' = 0 /\ deletions'[p] = deletions[p] + 1)
          /\ (/\ StepsFrom(p, AcquireLocs \ {"acquire_write"})
              /\ verdict'[p] \in {"active", "missing", "error"})
                => (pc'[p] = "idle" /\ ret'[p] = "false")
          /\ (StepsFrom(p, CheckRemoves) /\ path' # 0)
                => (pc'[p] = "idle" /\ ret'[p] = "false")]_vars

\* C30: empty and non-numeric records are handled alike.  An undisturbed
\* acquire that finds either kind, and in which no call but the delete can
\* have failed, returns True on its second creation attempt, the file then
\* holding the caller's pid, when the first delete succeeded; it returns
\* False only after its last attempt, whatever the kind.
CorruptKindsAlike ==
    \A p \in Procs :
        (/\ CleanCall(p, AcquireOutcomes)
         /\ rec0 # NoFile /\ ~IsInt(strip(rec0))
         /\ verdict[p] \in {"empty", "corrupt"})
            => (/\ ret[p] = "true" => OwnRecord(p)
                /\ (ret[p] = "true" /\ disk # "failed") => attempt[p] = 1
                /\ ret[p] = "false" => attempt[p] = MaxAttempts - 1)


\* C28: progress among racers.  When all the processes that raced for a
\* path that was free or held a stale or corrupt record have returned from
\* their acquire, none of them crashed and none was refused a removal, at
\* least one of the calls has returned True.
SomeRacerWins ==
    (\A p \in Procs : pc[p] = "idle" /\ race[p] \in {"true", "false"})
        => \E p \in Procs : race[p] = "true"
\* Reached: two overlapping calls on a stale or corrupt record have both
\* returned: one False, before any pid was written (it found the record
\* gone), then the other True, on its second attempt.
RaceWonAndLost ==
    \E p \in Procs : \E q \in Procs \ {p} :
        /\ pc[q] = "idle" /\ race[q] = "false"
        /\ pc[p] = "idle" /\ race[p] = "true" /\ attempt[p] = 1
        /\ actor = p /\ OwnRecord(p)


ReleaseLeavesUnowned ==
    \A p \in Procs :
        /\ CleanCall(p, {"R"}) => lock_file[p] = 0
        /\ (actor = 0 /\ alive[p]) => (lock_file[p] = 0 /\ ~mutated[p])

\* C33: re-acquisition.  Of the calls one process makes one after another
\* with no other process acting and no call on the file failing, a release
\* that follows a successful acquire leaves no file at the path and no handle
\* in the instance, and the acquire that follows that release returns True
\* with the caller's record at the path; so it goes on for every further
\* repetition.
ReacquireSucceeds ==
    \A p \in Procs :
        SoundCall(p, {"A+", "A-", "R"}) =>
            /\ Ends(trail, <<"A+", "R">>) => (path = 0 /\ lock_file[p] = 0)
            /\ ~Ends(trail, <<"A+", "R", "A-">>)
            /\ Ends(trail, <<"A+", "R", "A+">>)
                  => (ret[p] = "true" /\ OwnRecord(p) /\ lock_file[p] = path)
\* Reached: the second acquire of acquire, release, acquire has returned True.
Reacquired ==
    \E p \in Procs :
        /\ SoundCall(p, {"A+"})
        /\ Ends(trail, <<"A+", "R", "A+">>)
        /\ OwnRecord(p) /\ attempt[p] = 0

\* ------------------------------------------------- claims on the scripts
\* C16: application-level single instance: of the processes started from
\* src/BOT2_PythonAnywhere.py in one directory, at most one at a time is
\* inside the serve loop of run_bot.
SingleInstance ==
    \A p, q \in Procs :
        (entry = "current" /\ stage[p] = "serving" /\ stage[q] = "serving") => p = q

\* C17: startup ordering: in src/BOT2_PythonAnywhere.py the handlers are
\* registered and the serve loop starts only after the one call of acquire
\* has returned True.
AcquireBeforeHandlers ==
    \A p \in Procs :
        /\ (entry = "current" /\ handlers[p]) => acquires[p] = 1
        /\ (entry = "current" /\ stage[p] \in {"configured", "serving"})
              => (acquires[p] = 1 /\ holding[p])

\* C18: in both scripts a refused acquisition registers no handler, starts
\* no serve loop and ends the process with a non-zero exit status.
RefusedExitsNonZero ==
    \A p \in Procs :
        /\ stage[p] = "refused" => ~handlers[p]
        /\ ended[p] = "refused"
              => (~handlers[p] /\ stage[p] = "exited" /\ exit_status[p] # 0)

\* C19: in src/BOT2_PythonAnywhere.py, once acquire has returned True,
\* release is called exactly once however run_bot ends (return, exception,
\* sys.exit), and not before run_bot has ended.
ReleasedOnExit ==
    \A p \in Procs :
        (entry = "current" /\ acquires[p] > 0)
            => (/\ releases[p] <= 1
                /\ releases[p] = 1 => ended[p] \in RunEnds
                /\ stage[p] \in {"run_bot", "configured", "serving"} => releases[p] = 0
                /\ (stage[p] = "exited" /\ ended[p] \in RunEnds) => releases[p] = 1)
\* Reached: a script that had acquired the lock has exited after sys.exit in
\* run_bot, having called release once.
ReleasedAfterSysExit ==
    \E p \in Procs :
        /\ entry = "current" /\ acquires[p] = 1
        /\ stage[p] = "exited" /\ ended[p] = "sys.exit"
        /\ releases[p] = 1

\* C24: bypass policy.  A script that found the marker has called neither
\* acquire nor release and never does; it removes bot.lock if it found one
\* there, and goes on to run_bot whether or not the removal worked.
Bypassing(p) ==
    /\ entry = "current" /\ acquires[p] = 0
    /\ stage[p] \notin {"off", "marker", "script_read", "script_error", "lock"}
BypassPolicy ==
    /\ [](\A p \in Procs :
            (entry = "current" /\ stage[p] \in {"cleanup", "cleanup_remove"})
                => (acquires[p] = 0 /\ releases[p] = 0))
    /\ [][\A p \in Procs :
            (Bypassing(p) /\ stage'[p] # stage[p])
                => (/\ acquires'[p] = 0 /\ releases'[p] = 0
                    /\ stage'[p] \notin {"lock", "acquire", "finally", "release"}
                    /\ stage[p] = "cleanup"
                          => stage'[p] = IF path # 0 THEN "cleanup_remove" ELSE "run_bot"
                    /\ stage[p] = "cleanup_remove"
                          => (/\ stage'[p] = "run_bot"
                              /\ RemoveOutcome = "ok" => path' = 0
                              /\ RemoveOutcome # "ok" => path' = path))]_vars
\* Reached: the removal failed (on Windows, the file is open in the process
\* that holds the lock) and the script has gone on to run_bot.
BypassedUndeleted ==
    \E p \in Procs : \E q \in Procs \ {p} :
        /\ Bypassing(p) /\ stage[p] = "run_bot" /\ actor = p
        /\ os_name = "nt" /\ path # 0 /\ lock_file[q] = path

LegacyAcquireNeverRaises ==
    \A p \in Procs :
        entry = "legacy" => (pc[p] # "acquire_raised" /\ stage[p] # "traceback")

\* C36: release_lock of the older script leaves the lock file as it is when
\* the pid stored in it is not the pid of the releasing process.
LegacyReleaseKeepsOthers ==
    [][\A p \in Procs :
          (/\ entry = "legacy"
           /\ StepsFrom(p, {"lg_release_remove"})
           /\ path # 0
           /\ IsInt(strip(content[path]))
           /\ int(strip(content[path])) # getpid(p))
              => (path' = path /\ content'[path] = content[path])]_vars

\* C37: in acquire_lock of the older script, a record whose pid is that of a
\* live process the caller may not signal (os.kill answers EPERM) counts as
\* held: the call returns False and the file stays.
LegacyEpermHeld ==
    [][\A p \in Procs :
          (/\ entry = "legacy"
           /\ StepsFrom(p, {"lg_kill"})
           /\ probe'.kill = "EPERM")
              => (pc'[p] = "idle" /\ ret'[p] = "false" /\ path' = path)]_vars

====
